---- MODULE Spec2Model ----
(***************************************************************************)
(* Model of src/src/App.js: normalizeProcesses, computeFCFS, computeSJF    *)
(* and the form handler changeNum.                                         *)
(*                                                                         *)
(* JavaScript strings are sequences of one-character strings.  A field    *)
(* value of a process descriptor is either a number or a string:          *)
(*   [type |-> "number", text |-> <<>>, finite |-> TRUE,  val |-> n]       *)
(*   [type |-> "number", text |-> <<>>, finite |-> FALSE, val |-> 0] (NaN) *)
(*   [type |-> "string", text |-> s,    finite |-> FALSE, val |-> 0]       *)
(* Numbers are integers; the quotient sw / n is kept as an exact fraction  *)
(* [num, den] (den = 0 stands for the NaN of a division 0 / 0).            *)
(***************************************************************************)
EXTENDS Integers, Sequences, FiniteSets, TLC

\* ------------------------------------------------------------------ bounds
MaxLen == 3
MaxArrival == 2
MaxBurst == 3
FormLen == 2
TwiceLen == 3

VARIABLES processes, algo, pc, ps, it, remaining, ready, rows, timeline, t, p, report,
          prev

vars == <<processes, algo, pc, ps, it, remaining, ready, rows, timeline, t, p, report,
          prev>>

\* ------------------------------------------------------- JavaScript values
Num(n) == [type |-> "number", text |-> <<>>, finite |-> TRUE, val |-> n]

NaN == [type |-> "number", text |-> <<>>, finite |-> FALSE, val |-> 0]

Str(s) == [type |-> "string", text |-> s, finite |-> FALSE, val |-> 0]

Digits == <<"0", "1", "2", "3", "4", "5", "6", "7", "8", "9">>

IsDigit(c) == \E d \in 1..10 : Digits[d] = c

DigitVal(c) == (CHOOSE d \in 1..10 : Digits[d] = c) - 1

RECURSIVE TrimStart(_)
TrimStart(s) ==
  IF s # <<>> /\ Head(s) = " " THEN TrimStart(Tail(s)) ELSE s

RECURSIVE TrimEnd(_)
TrimEnd(s) ==
  IF s # <<>> /\ s[Len(s)] = " " THEN TrimEnd(SubSeq(s, 1, Len(s) - 1)) ELSE s

\* String.prototype.trim
Trim(s) == TrimEnd(TrimStart(s))

RECURSIVE DecimalValue(_)
DecimalValue(s) ==
  IF s = <<>> THEN 0
  ELSE 10 * DecimalValue(SubSeq(s, 1, Len(s) - 1)) + DigitVal(s[Len(s)])

AllDigits(s) == s # <<>> /\ \A j \in 1..Len(s) : IsDigit(s[j])

\* Number(string): white space is trimmed, the empty string is 0, a signed
\* decimal literal is its value, anything else is NaN
StringToNumber(s) ==
  LET tr == Trim(s) IN
  IF tr = <<>> THEN Num(0)
  ELSE IF AllDigits(tr) THEN Num(DecimalValue(tr))
  ELSE IF Head(tr) = "-" /\ AllDigits(Tail(tr)) THEN Num(0 - DecimalValue(Tail(tr)))
  ELSE IF Head(tr) = "+" /\ AllDigits(Tail(tr)) THEN Num(DecimalValue(Tail(tr)))
  ELSE NaN

\* Number(x)
Number(x) == IF x.type = "number" THEN x ELSE StringToNumber(x.text)

\* Number.isFinite(x)
NumberIsFinite(x) == x.type = "number" /\ x.finite

\* ------------------------------------------------------ normalizeProcesses
\* Dropped with burst < 0 in place of burst <= 0
DroppedMut(d) ==
  LET pid == Trim(d.pid)
      arrival == Number(d.arrival)
      burst == Number(d.burst)
  IN \/ pid = <<>>
     \/ ~NumberIsFinite(arrival) \/ ~NumberIsFinite(burst)
     \/ burst.val < 0

\* Dropped without the burst <= 0 return
DroppedNoBurstCheck(d) ==
  LET pid == Trim(d.pid)
      arrival == Number(d.arrival)
      burst == Number(d.burst)
  IN \/ pid = <<>>
     \/ ~NumberIsFinite(arrival) \/ ~NumberIsFinite(burst)

\* the three early returns of the forEach callback
Dropped(d) ==
  LET pid == Trim(d.pid)
      arrival == Number(d.arrival)
      burst == Number(d.burst)
  IN \/ pid = <<>>
     \/ ~NumberIsFinite(arrival) \/ ~NumberIsFinite(burst)
     \/ burst.val <= 0

\* Canonical with a negative arrival clamped to 0
CanonicalClamped(d, index) ==
  [pid |-> Trim(d.pid),
   arrival |-> IF Number(d.arrival).val < 0 THEN 0 ELSE Number(d.arrival).val,
   burst |-> Number(d.burst).val, index |-> index]

\* the record pushed for the descriptor at 0-based position index
Canonical(d, index) ==
  [pid |-> Trim(d.pid), arrival |-> Number(d.arrival).val,
   burst |-> Number(d.burst).val, index |-> index]

RECURSIVE normalizeFrom(_, _)
normalizeFrom(list, j) ==
  IF j > Len(list) THEN <<>>
  ELSE IF Dropped(list[j]) THEN normalizeFrom(list, j + 1)
  ELSE <<Canonical(list[j], j - 1)>> \o normalizeFrom(list, j + 1)

normalizeProcesses(list) == normalizeFrom(list, 1)

\* ------------------------------------------------------------------- sort
\* byArrival with the operands of the arrival difference swapped
byArrivalMut(a, b) ==
  IF a.arrival # b.arrival THEN b.arrival - a.arrival ELSE a.index - b.index

\* the comparator passed to sort in both engines
byArrival(a, b) ==
  IF a.arrival # b.arrival THEN a.arrival - b.arrival ELSE a.index - b.index

\* Array.prototype.sort with byArrival: a stable insertion sort
RECURSIVE insert(_, _)
insert(sorted, x) ==
  IF sorted = <<>> THEN <<x>>
  ELSE IF byArrival(x, Head(sorted)) < 0 THEN <<x>> \o sorted
  ELSE <<Head(sorted)>> \o insert(Tail(sorted), x)

\* sort that leaves the list in input order
sortMut(list) == list

RECURSIVE sort(_)
sort(list) ==
  IF list = <<>> THEN <<>>
  ELSE insert(sort(SubSeq(list, 1, Len(list) - 1)), list[Len(list)])

\* ------------------------------------------------------ shared by engines
IDLE == <<"I", "D", "L", "E">>

\* pushIdle with the comparison reversed
pushIdleFlipped(tl, from, to) ==
  IF to < from
  THEN Append(tl, [pid |-> IDLE, start |-> from, end |-> to,
                   duration |-> to - from, idle |-> TRUE])
  ELSE tl

\* pushIdle that skips the idle time before the first arrival
pushIdleSkipLeading(tl, from, to) ==
  IF to > from /\ from > 0
  THEN Append(tl, [pid |-> IDLE, start |-> from, end |-> to,
                   duration |-> to - from, idle |-> TRUE])
  ELSE tl

pushIdle(tl, from, to) ==
  IF to > from
  THEN Append(tl, [pid |-> IDLE, start |-> from, end |-> to,
                   duration |-> to - from, idle |-> TRUE])
  ELSE tl

\* Row with the turnaround measured from start instead of arrival
RowMut(q, start) ==
  LET completion == start + q.burst
      waiting == start - q.arrival
      turnaround == completion - start
  IN [pid |-> q.pid, arrival |-> q.arrival, burst |-> q.burst, start |-> start,
      completion |-> completion, waiting |-> waiting, turnaround |-> turnaround]

\* the row pushed for process q dispatched at start
Row(q, start) ==
  LET completion == start + q.burst
      waiting == start - q.arrival
      turnaround == completion - q.arrival
  IN [pid |-> q.pid, arrival |-> q.arrival, burst |-> q.burst, start |-> start,
      completion |-> completion, waiting |-> waiting, turnaround |-> turnaround]

\* Block that starts at the arrival instead of the dispatch time
BlockMut(q, start) ==
  [pid |-> q.pid, start |-> q.arrival, end |-> start + q.burst,
   duration |-> q.burst, idle |-> FALSE]

\* the running block pushed for process q dispatched at start
Block(q, start) ==
  [pid |-> q.pid, start |-> start, end |-> start + q.burst,
   duration |-> q.burst, idle |-> FALSE]

RECURSIVE sumWaiting(_)
sumWaiting(rs) == IF rs = <<>> THEN 0 ELSE rs[1].waiting + sumWaiting(Tail(rs))

RECURSIVE sumTurnaround(_)
sumTurnaround(rs) ==
  IF rs = <<>> THEN 0 ELSE rs[1].turnaround + sumTurnaround(Tail(rs))

\* rowCount without the || 1
rowCountMut(rs) == Len(rs)

\* rows.length || 1
rowCount(rs) == IF Len(rs) # 0 THEN Len(rs) ELSE 1

makespanOf(tl) == IF Len(tl) # 0 THEN tl[Len(tl)].end - tl[1].start ELSE 0

\* the statistics and the returned object
Report(rs, tl) ==
  LET sw == sumWaiting(rs)
      st == sumTurnaround(rs)
      n == rowCount(rs)
  IN [rows |-> rs, avgWaiting |-> [num |-> sw, den |-> n],
      avgTurnaround |-> [num |-> st, den |-> n], timeline |-> tl,
      makespan |-> makespanOf(tl)]

NoProc == [pid |-> <<>>, arrival |-> 0, burst |-> 0, index |-> 0 - 1]

NoReport == [rows |-> <<>>, avgWaiting |-> [num |-> 0, den |-> 0],
             avgTurnaround |-> [num |-> 0, den |-> 0], timeline |-> <<>>,
             makespan |-> 0]

\* ------------------------------------------------------------ computeFCFS
\* CallFCFS with the clock t kept from the previous call
CallFCFSKeepsClock ==
  /\ pc = "edit"
  /\ algo' = "FCFS"
  /\ ps' = sort(normalizeProcesses(processes))
  /\ it' = 1
  /\ rows' = <<>>
  /\ timeline' = <<>>
  /\ pc' = "fcfs"
  /\ UNCHANGED <<processes, remaining, ready, p, report, prev, t>>

CallFCFS ==
  /\ pc = "edit"
  /\ algo' = "FCFS"
  /\ ps' = sort(normalizeProcesses(processes))
  /\ it' = 1
  /\ t' = 0
  /\ rows' = <<>>
  /\ timeline' = <<>>
  /\ pc' = "fcfs"
  /\ UNCHANGED <<processes, remaining, ready, p, report, prev>>

\* one iteration of for (const p of ps)
FCFSIter ==
  /\ pc = "fcfs"
  /\ it <= Len(ps)
  /\ LET q == ps[it]
         tl1 == IF t < q.arrival THEN pushIdle(timeline, t, q.arrival) ELSE timeline
         start == IF t < q.arrival THEN q.arrival ELSE t
     IN /\ p' = q
        /\ rows' = Append(rows, Row(q, start))
        /\ timeline' = Append(tl1, Block(q, start))
        /\ t' = start + q.burst
  /\ it' = it + 1
  /\ UNCHANGED <<processes, algo, pc, ps, remaining, ready, report, prev>>

FCFSReturn ==
  /\ pc = "fcfs"
  /\ it > Len(ps)
  /\ report' = Report(rows, timeline)
  /\ pc' = "done"
  /\ UNCHANGED <<processes, algo, ps, it, remaining, ready, rows, timeline, t, p, prev>>

\* ------------------------------------------------------------- computeSJF
\* bringArrivals with < in place of <=
RECURSIVE bringArrivalsStrict(_, _, _)
bringArrivalsStrict(rem, rdy, clock) ==
  IF Len(rem) > 0 /\ rem[1].arrival < clock
  THEN bringArrivalsStrict(Tail(rem), Append(rdy, rem[1]), clock)
  ELSE [remaining |-> rem, ready |-> rdy]

\* bringArrivals that also takes the processes arriving one tick later
RECURSIVE bringArrivalsEarly(_, _, _)
bringArrivalsEarly(rem, rdy, clock) ==
  IF Len(rem) > 0 /\ rem[1].arrival <= clock + 1
  THEN bringArrivalsEarly(Tail(rem), Append(rdy, rem[1]), clock)
  ELSE [remaining |-> rem, ready |-> rdy]

\* while (remaining.length > 0 && remaining[0].arrival <= t) ready.push(remaining.shift())
RECURSIVE bringArrivals(_, _, _)
bringArrivals(rem, rdy, clock) ==
  IF Len(rem) > 0 /\ rem[1].arrival <= clock
  THEN bringArrivals(Tail(rem), Append(rdy, rem[1]), clock)
  ELSE [remaining |-> rem, ready |-> rdy]

\* shorter with <= on the burst and no tie-break
shorterMut(a, b) == a.burst <= b.burst

\* shorter with equal bursts decided by the index alone
shorterIndexFirst(a, b) ==
  \/ a.burst < b.burst
  \/ a.burst = b.burst /\ a.index < b.index

\* the condition under which ready[i] replaces ready[best]
shorter(a, b) ==
  \/ a.burst < b.burst
  \/ /\ a.burst = b.burst
     /\ \/ a.arrival < b.arrival
        \/ a.arrival = b.arrival /\ a.index < b.index

\* the selection loop, from position i with the current best
RECURSIVE chooseBest(_, _, _)
chooseBest(rdy, i, best) ==
  IF i > Len(rdy) THEN best
  ELSE chooseBest(rdy, i + 1, IF shorter(rdy[i], rdy[best]) THEN i ELSE best)

\* splice that removes the head of the ready list, as ready.shift() would
spliceMut(rdy, best) == Tail(rdy)

\* ready.splice(best, 1)
splice(rdy, best) == SubSeq(rdy, 1, best - 1) \o SubSeq(rdy, best + 1, Len(rdy))

\* Math.max(t, p.arrival) replaced by p.arrival
MaxMut(a, b) == b

\* Math.max
Max(a, b) == IF a >= b THEN a ELSE b

\* CallSJF that filters and sorts the caller's list itself
CallSJFInPlace ==
  /\ pc = "edit"
  /\ algo' = "SJF"
  /\ remaining' = sort(normalizeProcesses(processes))
  /\ processes' = [j \in 1..Len(remaining') |-> processes[remaining'[j].index + 1]]
  /\ ready' = <<>>
  /\ rows' = <<>>
  /\ timeline' = <<>>
  /\ t' = 0
  /\ pc' = "sjf"
  /\ UNCHANGED <<ps, it, p, report, prev>>

CallSJF ==
  /\ pc = "edit"
  /\ algo' = "SJF"
  /\ remaining' = sort(normalizeProcesses(processes))
  /\ ready' = <<>>
  /\ rows' = <<>>
  /\ timeline' = <<>>
  /\ t' = 0
  /\ pc' = "sjf"
  /\ UNCHANGED <<processes, ps, it, p, report, prev>>

\* one iteration of while (remaining.length > 0 || ready.length > 0)
SJFIter ==
  /\ pc = "sjf"
  /\ Len(remaining) > 0 \/ Len(ready) > 0
  /\ LET b1 == bringArrivals(remaining, ready, t)
         wait == Len(b1.ready) = 0
         nextArrival == b1.remaining[1].arrival
         tl1 == IF wait THEN pushIdle(timeline, t, nextArrival) ELSE timeline
         t1 == IF wait THEN nextArrival ELSE t
         b2 == IF wait THEN bringArrivals(b1.remaining, b1.ready, t1) ELSE b1
     IN IF Len(b2.ready) = 0
        THEN \* continue
             /\ remaining' = b2.remaining
             /\ ready' = b2.ready
             /\ timeline' = tl1
             /\ t' = t1
             /\ UNCHANGED <<rows, p>>
        ELSE LET best == chooseBest(b2.ready, 2, 1)
                 q == b2.ready[best]
                 start == Max(t1, q.arrival)
                 tl2 == IF t1 < start THEN pushIdle(tl1, t1, start) ELSE tl1
             IN /\ remaining' = b2.remaining
                /\ ready' = splice(b2.ready, best)
                /\ p' = q
                /\ rows' = Append(rows, Row(q, start))
                /\ timeline' = Append(tl2, Block(q, start))
                /\ t' = start + q.burst
  /\ UNCHANGED <<processes, algo, pc, ps, it, report, prev>>

SJFReturn ==
  /\ pc = "sjf"
  /\ ~(Len(remaining) > 0 \/ Len(ready) > 0)
  /\ report' = Report(rows, timeline)
  /\ pc' = "done"
  /\ UNCHANGED <<processes, algo, ps, it, remaining, ready, rows, timeline, t, p, prev>>

\* ------------------------------------------------------------------- form
\* what changeNum stores for the text v of a numeric input field
stored(v) == IF v = <<>> THEN Str(<<>>) ELSE Number(Str(v))

\* texts typed into a numeric field
FieldTexts == {<<>>, <<"0">>, <<"1">>, <<"-", "1">>}

\* changeNum(i, field, e)
changeNum ==
  /\ pc = "edit"
  /\ \E i \in 1..Len(processes), field \in {"arrival", "burst"}, v \in FieldTexts :
       processes' = [processes EXCEPT ![i] = [@ EXCEPT ![field] = stored(v)]]
  /\ UNCHANGED <<algo, pc, ps, it, remaining, ready, rows, timeline, t, p, report, prev>>

\* ----------------------------------------------------------------- render
\* the component renders again and useMemo calls an engine anew; prev keeps
\* the report each engine returned before (at most one repeat per engine)
rerender ==
  /\ pc = "done"
  /\ prev[algo] = NoReport
  /\ prev' = [prev EXCEPT ![algo] = report]
  /\ pc' = "edit"
  /\ UNCHANGED <<processes, algo, ps, it, remaining, ready, rows, timeline, t, p, report>>

\* --------------------------------------------------------- specifications
\* "P" + (p.length + 1), the pid addRow gives the row at 1-based position j
PidOf(j) == <<"P", Digits[j + 1]>>

\* a descriptor of the engines' input lists at 1-based position j, the pid
\* as addRow numbers it
EngineDescriptor(j, arrival, burst) ==
  [pid |-> PidOf(j), arrival |-> Num(arrival), burst |-> Num(burst)]

\* integer arrivals from -1 (negative arrivals are accepted) and the bursts
\* 0 (which is dropped), 1 and MaxBurst
EngineFields == ((0 - 1)..MaxArrival) \X {0, 1, MaxBurst}

\* descriptors as a caller or the form can supply them: blank and padded
\* pids, numbers, NaN, blank and non-numeric strings
FormPids == {<<"P">>, <<" ">>}

FormValues == {stored(v) : v \in FieldTexts} \cup {NaN, Str(<<"a">>)}

FormDescriptors == [pid : FormPids, arrival : FormValues, burst : FormValues]

InitRest ==
  /\ algo = "FCFS"
  /\ pc = "edit"
  /\ ps = <<>>
  /\ it = 1
  /\ remaining = <<>>
  /\ ready = <<>>
  /\ rows = <<>>
  /\ timeline = <<>>
  /\ t = 0
  /\ p = NoProc
  /\ report = NoReport
  /\ prev = [FCFS |-> NoReport, SJF |-> NoReport]

Init ==
  /\ \E n \in 0..MaxLen : \E f \in [1..n -> EngineFields] :
       processes = [j \in 1..n |-> EngineDescriptor(j, f[j][1], f[j][2])]
  /\ InitRest

Next ==
  \/ CallFCFS
  \/ FCFSIter
  \/ FCFSReturn
  \/ CallSJF
  \/ SJFIter
  \/ SJFReturn

Spec == Init /\ [][Next]_vars

InitForm ==
  /\ \E n \in 0..FormLen : processes \in [1..n -> FormDescriptors]
  /\ InitRest

NextForm == changeNum \/ Next

SpecForm == InitForm /\ [][NextForm]_vars

\* the arrivals of EngineFields with the valid bursts 1 and MaxBurst
TwiceFields == ((0 - 1)..MaxArrival) \X {1, MaxBurst}

InitTwice ==
  /\ \E n \in 0..TwiceLen : \E f \in [1..n -> TwiceFields] :
       processes = [j \in 1..n |-> EngineDescriptor(j, f[j][1], f[j][2])]
  /\ InitRest

NextTwice == rerender \/ Next

SpecTwice == InitTwice /\ [][NextTwice]_vars

\* ------------------------------------------------------------- properties
\* the valid processes of the input, as normalizeProcesses returns them
Valid == normalizeProcesses(processes)

ValidSet == {Valid[j] : j \in 1..Len(Valid)}

Running == pc \in {"fcfs", "sjf", "done"}

\* (burst, arrival, index) of a is lexicographically at most that of b
LexLE(a, b) ==
  \/ a.burst < b.burst
  \/ a.burst = b.burst /\ a.arrival < b.arrival
  \/ a.burst = b.burst /\ a.arrival = b.arrival /\ a.index <= b.index

\* the valid processes not dispatched by the first n rows
Undispatched(n) == {v \in ValidSet : \A j \in 1..n : rows[j].pid # v.pid}

\* the candidates of the latest dispatch: not dispatched before it and
\* arrived by the clock of the dispatch
Candidates ==
  {v \in Undispatched(Len(rows) - 1) : v.arrival <= rows[Len(rows)].start}

\* C1: at every dispatch point of computeSJF the chosen process has the
\* minimum (burst, arrival, index) among the valid processes that have
\* arrived by the current clock and are not yet dispatched
C1_SJFPicksMinimum ==
  (algo = "SJF" /\ Running /\ rows # <<>>) =>
    /\ p \in Candidates
    /\ rows[Len(rows)].pid = p.pid
    /\ \A v \in Candidates : LexLE(p, v)

\* SJF has dispatched a process ahead of one that arrived earlier
C1_Witness ==
  /\ algo = "SJF" /\ Running /\ Len(rows) >= 2
  /\ \E v \in Candidates : v.arrival < p.arrival /\ v.burst > p.burst

\* (arrival, index) of a is lexicographically below that of b
ArrivalBefore(a, b) ==
  a.arrival < b.arrival \/ (a.arrival = b.arrival /\ a.index < b.index)

\* the 1-based place of v in the order by (arrival, index)
Rank(v) == Cardinality({u \in ValidSet : ArrivalBefore(u, v)}) + 1

\* C2: the rows computeFCFS returns are the valid processes in the order
\* of (arrival, index): arrivals never decrease along the rows and equal
\* arrivals keep the input order
C2_FCFSOrder ==
  (algo = "FCFS" /\ pc = "done") =>
    /\ Len(report.rows) = Cardinality(ValidSet)
    /\ \A v \in ValidSet :
         /\ report.rows[Rank(v)].pid = v.pid
         /\ report.rows[Rank(v)].arrival = v.arrival
         /\ report.rows[Rank(v)].burst = v.burst
    /\ \A j, k \in 1..Len(report.rows) :
         j < k => report.rows[j].arrival <= report.rows[k].arrival

\* FCFS has returned rows in an order other than the input order, with a tie
C2_Witness ==
  /\ algo = "FCFS" /\ pc = "done" /\ Len(report.rows) = 3
  /\ report.rows[1].pid # Valid[1].pid
  /\ report.rows[2].arrival = report.rows[3].arrival

Contiguous(tl) ==
  /\ \A j \in 1..Len(tl) : tl[j].start < tl[j].end
  /\ \A j \in 1..(Len(tl) - 1) : tl[j].end = tl[j + 1].start

\* C3: in both engines the timeline is contiguous, each block ending where
\* the next one starts
C3_TimelineContiguous ==
  /\ Contiguous(timeline)
  /\ pc = "done" => Contiguous(report.timeline)

\* a returned timeline with an idle block between two running blocks
C3_Witness ==
  /\ pc = "done" /\ algo = "SJF"
  /\ \E j \in 2..(Len(report.timeline) - 1) :
       /\ report.timeline[j].idle
       /\ ~report.timeline[j - 1].idle
       /\ ~report.timeline[j + 1].idle

\* the valid processes no block before the k-th block of the timeline runs
PendingAt(k) ==
  {v \in ValidSet : \A j \in 1..(k - 1) : timeline[j].idle \/ timeline[j].pid # v.pid}

\* C4: in both engines an idle block ends exactly at the earliest arrival
\* among the processes still undispatched when it starts, so none of them
\* has arrived before its end
C4_NoIdleWhileReady ==
  Running =>
    \A k \in 1..Len(timeline) :
      timeline[k].idle =>
        /\ \A v \in PendingAt(k) : v.arrival >= timeline[k].end
        /\ \E v \in PendingAt(k) : v.arrival = timeline[k].end

\* an idle block after a process with a negative arrival has run
C4_Witness ==
  /\ Running
  /\ \E k \in 2..Len(timeline) :
       /\ timeline[k].idle
       /\ \E r \in 1..Len(rows) : rows[r].arrival < 0 /\ rows[r].completion <= timeline[k].start

RowOK(r) ==
  /\ r.start >= r.arrival
  /\ r.completion = r.start + r.burst
  /\ r.waiting = r.start - r.arrival
  /\ r.waiting >= 0
  /\ r.turnaround = r.completion - r.arrival
  /\ r.turnaround = r.waiting + r.burst

\* C5: every row of either engine has start >= arrival, completion = start
\* + burst, waiting = start - arrival >= 0 and turnaround = completion -
\* arrival = waiting + burst
C5_RowArithmetic ==
  /\ \A j \in 1..Len(rows) : RowOK(rows[j])
  /\ pc = "done" => \A j \in 1..Len(report.rows) : RowOK(report.rows[j])

\* both a row that waited and a row that did not
C5_Witness ==
  /\ pc = "done"
  /\ \E j, k \in 1..Len(report.rows) :
       report.rows[j].waiting > 0 /\ report.rows[k].waiting = 0

Serial(rs) ==
  \A j \in 1..(Len(rs) - 1) :
    /\ rs[j].completion < rs[j + 1].completion
    /\ rs[j + 1].start >= rs[j].completion

\* C6: in both engines the rows have strictly increasing completions and
\* each row starts no earlier than the completion of the row before it
C6_RowsSerial ==
  /\ Serial(rows)
  /\ pc = "done" => Serial(report.rows)

\* three rows, one starting after and one starting at the previous completion
C6_Witness ==
  /\ pc = "done" /\ Len(report.rows) = 3
  /\ report.rows[2].start > report.rows[1].completion
  /\ report.rows[3].start = report.rows[2].completion

\* the claim's reading of a field that does not parse: a blank field too
ClaimUnparsable(x) ==
  (x.type = "string" /\ x.text = <<>>) \/ ~NumberIsFinite(Number(x))

ClaimDropped(d) ==
  \/ Trim(d.pid) = <<>>
  \/ ClaimUnparsable(d.arrival) \/ ClaimUnparsable(d.burst)
  \/ Number(d.burst).val <= 0

\* the 0-based positions of the descriptors the claim keeps
ClaimKept == {j - 1 : j \in {k \in 1..Len(processes) : ~ClaimDropped(processes[k])}}

Indexes(list) == {list[j].index : j \in 1..Len(list)}

RunningBlocks(tl) == {j \in 1..Len(tl) : ~tl[j].idle}

\* C7: a descriptor with an empty trimmed pid, with an arrival or burst
\* that is blank, non-numeric or not finite, or with burst <= 0 is dropped
\* by normalizeProcesses and gets no row and no block in either engine;
\* every other descriptor is kept
C7_DroppedAsClaimed ==
  /\ (pc = "fcfs" /\ it = 1) => Indexes(ps) = ClaimKept
  /\ (pc = "sjf" /\ rows = <<>>) => Indexes(remaining) \cup Indexes(ready) = ClaimKept
  /\ pc = "done" =>
       /\ Len(report.rows) = Cardinality(ClaimKept)
       /\ Cardinality(RunningBlocks(report.timeline)) = Cardinality(ClaimKept)

\* C8, as claimed: the first block of a non-empty timeline starts at the
\* start of the first row
C8_FirstBlockIsFirstRow ==
  (pc = "done" /\ report.timeline # <<>>) =>
    report.timeline[1].start = report.rows[1].start

\* C8, amended: the first block of a non-empty timeline starts at 0; that
\* is the start of the first row when the first scheduled process has
\* arrival <= 0, and otherwise the first block is an idle block from 0 to
\* the start of the first row, which is its arrival
C8_FirstBlockAtZero ==
  (pc = "done" /\ report.timeline # <<>>) =>
    LET b == report.timeline[1]
        r == report.rows[1]
    IN /\ b.start = 0
       /\ IF r.arrival <= 0
          THEN ~b.idle /\ b.pid = r.pid /\ r.start = 0
          ELSE b.idle /\ b.end = r.start /\ r.start = r.arrival

\* a returned timeline that opens with an idle block
C8_Witness ==
  /\ pc = "done" /\ report.timeline # <<>>
  /\ report.timeline[1].idle
  /\ report.rows[1].start > 0

ScenarioB == <<[pid |-> <<"P", "1">>, arrival |-> Num(2), burst |-> Num(3)]>>

ScenarioBTimeline ==
  <<[pid |-> IDLE, start |-> 0, end |-> 2, duration |-> 2, idle |-> TRUE],
    [pid |-> <<"P", "1">>, start |-> 2, end |-> 5, duration |-> 3, idle |-> FALSE]>>

\* C9: with at least one valid descriptor the timeline of either engine
\* begins at 0; when the earliest valid arrival a is > 0 it opens with the
\* idle block [0, a) followed by a running block, and the makespan is the
\* end of the last block (P1 with arrival 2 and burst 3: idle 0 to 2, run
\* 2 to 5, makespan 5, average waiting 0)
C9_TimelineFromZero ==
  (pc = "done" /\ ValidSet # {}) =>
    LET tl == report.timeline
        a == CHOOSE x \in {v.arrival : v \in ValidSet} :
               \A v \in ValidSet : x <= v.arrival
    IN /\ tl # <<>>
       /\ tl[1].start = 0
       /\ a > 0 => /\ Len(tl) >= 2
                   /\ tl[1].idle /\ tl[1].end = a
                   /\ ~tl[2].idle /\ tl[2].start = a
       /\ report.makespan = tl[Len(tl)].end
       /\ processes = ScenarioB =>
            /\ tl = ScenarioBTimeline
            /\ report.makespan = 5
            /\ report.avgWaiting.num = 0 /\ report.avgWaiting.den # 0

\* SJF has returned the report of the single process P1(2, 3)
C9_Witness ==
  /\ pc = "done" /\ algo = "SJF" /\ processes = ScenarioB
  /\ report.timeline = ScenarioBTimeline

\* the sum of f[1] .. f[n]
RECURSIVE Total(_, _)
Total(f, n) == IF n = 0 THEN 0 ELSE Total(f, n - 1) + f[n]

\* the quotient q is num / den
IsQuotient(q, num, den) == q.den # 0 /\ q.num * den = num * q.den

\* C10: in both engines avgWaiting and avgTurnaround are the sums of the
\* rows' waiting and turnaround over max(1, number of rows), and makespan
\* is timeline.last.end - timeline.first.start, or 0 for an empty timeline
C10_Statistics ==
  pc = "done" =>
    LET rs == report.rows
        tl == report.timeline
        n == Max(1, Len(rs))
    IN /\ rs = rows /\ tl = timeline
       /\ IsQuotient(report.avgWaiting,
                     Total([j \in 1..Len(rs) |-> rs[j].waiting], Len(rs)), n)
       /\ IsQuotient(report.avgTurnaround,
                     Total([j \in 1..Len(rs) |-> rs[j].turnaround], Len(rs)), n)
       /\ report.makespan =
            IF tl = <<>> THEN 0 ELSE tl[Len(tl)].end - tl[1].start

\* a report whose average waiting time is not a whole number
C10_Witness ==
  /\ pc = "done" /\ Len(report.rows) = 3
  /\ report.avgWaiting.den = 3
  /\ report.avgWaiting.num % 3 # 0

\* a descriptor with a blank pid, an arrival or burst that Number does not
\* turn into a finite number, or a burst <= 0
Invalid(d) ==
  \/ \A j \in 1..Len(d.pid) : d.pid[j] = " "
  \/ ~Number(d.arrival).finite
  \/ ~Number(d.burst).finite
  \/ Number(d.burst).val <= 0

EmptyReport ==
  [rows |-> <<>>, avgWaiting |-> [num |-> 0, den |-> 1],
   avgTurnaround |-> [num |-> 0, den |-> 1], timeline |-> <<>>, makespan |-> 0]

\* C11: for an empty input list and for a list of invalid descriptors only,
\* both engines return the empty report: no rows, no timeline, averages 0
\* and makespan 0
C11_EmptyReport ==
  (pc = "done" /\ \A j \in 1..Len(processes) : Invalid(processes[j])) =>
    report = EmptyReport

\* SJF has returned for a blank-pid descriptor followed by a burst 0 one
C11_Witness ==
  /\ pc = "done" /\ algo = "SJF" /\ report = EmptyReport
  /\ Len(processes) = 2
  /\ processes[1] = [pid |-> <<" ">>, arrival |-> Num(0), burst |-> Num(1)]
  /\ processes[2] = [pid |-> <<"P">>, arrival |-> Num(0), burst |-> Num(0)]

\* C12: an engine called again on the same input list, with or without a
\* call of the other engine in between, returns the report it returned
\* before
C12_SameReportAgain ==
  (pc = "done" /\ prev[algo] # NoReport) => report = prev[algo]

\* FCFS has returned a second time, SJF having been called in between
C12_Witness ==
  /\ pc = "done" /\ algo = "FCFS"
  /\ prev.FCFS # NoReport /\ prev.SJF # NoReport
  /\ Len(report.rows) = 2 /\ report.rows # prev.SJF.rows

\* C13: the running blocks of the timeline, in order, are the rows in
\* order (same pid, start, end = completion, duration = burst); every
\* valid process is dispatched exactly once; a process that arrives with
\* a shorter burst while another runs starts no earlier than the
\* completion of that one
C13_NonPreemptive ==
  Running =>
    LET blocks == SelectSeq(timeline, LAMBDA b : ~b.idle)
        valid == Valid
        pids == {valid[j].pid : j \in 1..Len(valid)}
    IN
    /\ Len(blocks) = Len(rows)
    /\ \A j \in 1..Len(rows) :
         /\ blocks[j].pid = rows[j].pid
         /\ blocks[j].start = rows[j].start
         /\ blocks[j].end = rows[j].completion
         /\ blocks[j].duration = rows[j].burst
         /\ blocks[j].end - blocks[j].start = rows[j].burst
         /\ rows[j].pid \in pids
    /\ \A j, k \in 1..Len(rows) : j # k => rows[j].pid # rows[k].pid
    /\ pc = "done" => Len(rows) = Len(valid)
    /\ \A j, k \in 1..Len(rows) :
         ( /\ rows[j].start < rows[k].arrival
           /\ rows[k].arrival < rows[j].completion
           /\ rows[k].burst < rows[j].burst ) =>
         rows[k].start >= rows[j].completion

\* SJF has returned, a shorter process having arrived while a longer one ran
C13_Witness ==
  /\ pc = "done" /\ algo = "SJF" /\ Len(rows) = 3
  /\ \E j, k \in 1..Len(rows) :
       /\ rows[j].start < rows[k].arrival
       /\ rows[k].arrival < rows[j].completion
       /\ rows[k].burst < rows[j].burst
       /\ k = j + 1

\* C14: every iteration of the main loop of computeSJF dispatches exactly
\* one process (the continue is never taken) and so takes one process out
\* of the pending queue and the ready set; the loop ends after as many
\* iterations as there are valid processes, with both empty
C14_SJFLoopTerminates ==
  /\ [][SJFIter =>
          /\ Len(rows') = Len(rows) + 1
          /\ Len(remaining') + Len(ready') = Len(remaining) + Len(ready) - 1]_vars
  /\ [](pc = "sjf" => Len(rows) + Len(remaining) + Len(ready) = Len(Valid))
  /\ []((algo = "SJF" /\ pc = "done") =>
          /\ remaining = <<>> /\ ready = <<>>
          /\ Len(rows) = Len(Valid))

\* SJF has returned after three iterations, one of which waited for an arrival
C14_Witness ==
  /\ pc = "done" /\ algo = "SJF" /\ Len(rows) = 3 /\ Len(Valid) = 3
  /\ \E j \in 2..Len(timeline) : timeline[j].idle

\* the valid process a row belongs to
ValidOf(r) == CHOOSE v \in ValidSet : v.pid = r.pid

\* C15: computeSJF dispatches two valid processes of equal burst in the
\* order of (arrival, index); when all valid processes have the same
\* burst it returns the rows and the timeline computeFCFS returns
C15_EqualBurstsFCFS ==
  /\ (algo = "SJF" /\ Running) =>
       \A j, k \in 1..Len(rows) :
         (j < k /\ rows[j].burst = rows[k].burst) =>
           ArrivalBefore(ValidOf(rows[j]), ValidOf(rows[k]))
  /\ ( /\ algo = "SJF" /\ pc = "done" /\ prev.FCFS # NoReport
       /\ \A v, w \in ValidSet : v.burst = w.burst ) =>
       /\ report.rows = prev.FCFS.rows
       /\ report.timeline = prev.FCFS.timeline

\* SJF has returned two processes of equal burst, the later input first,
\* after FCFS returned for the same list
C15_Witness ==
  /\ algo = "SJF" /\ pc = "done" /\ prev.FCFS # NoReport
  /\ Len(rows) = 2 /\ rows[1].burst = rows[2].burst
  /\ ValidOf(rows[1]).index > ValidOf(rows[2]).index
  /\ report.rows = prev.FCFS.rows

Other == IF algo = "FCFS" THEN "SJF" ELSE "FCFS"

Scheduled(rs) ==
  {[pid |-> rs[j].pid, arrival |-> rs[j].arrival, burst |-> rs[j].burst] :
     j \in 1..Len(rs)}

IdleBlocks(tl) == {tl[j] : j \in {k \in 1..Len(tl) : tl[k].idle}}

EndOf(tl) == IF tl = <<>> THEN 0 ELSE tl[Len(tl)].end

\* C16: on the same input list computeFCFS and computeSJF schedule the
\* same processes, produce the same idle blocks, end their timelines at
\* the same time and report the same makespan
C16_EnginesAgree ==
  (pc = "done" /\ prev[Other] # NoReport) =>
    /\ Len(report.rows) = Len(prev[Other].rows)
    /\ Scheduled(report.rows) = Scheduled(prev[Other].rows)
    /\ IdleBlocks(report.timeline) = IdleBlocks(prev[Other].timeline)
    /\ Len(report.timeline) = Len(prev[Other].timeline)
    /\ EndOf(report.timeline) = EndOf(prev[Other].timeline)
    /\ report.makespan = prev[Other].makespan

\* SJF has returned after FCFS, with an idle block after the first process
\* and the other two processes in the other order
C16_Witness ==
  /\ pc = "done" /\ algo = "SJF" /\ prev.FCFS # NoReport
  /\ Len(report.rows) = 3
  /\ report.rows[2].pid = prev.FCFS.rows[3].pid
  /\ \E b \in IdleBlocks(report.timeline) : b.start > 0

\* C17: a valid descriptor with a negative arrival keeps that arrival: in
\* both engines it counts as arrived at clock 0 (the timeline opens with a
\* running block at 0), its row reports the negative arrival, its start
\* is >= 0 and its waiting = start - arrival is > 0; no block starts
\* before 0
C17_NegativeArrivalKept ==
  pc = "done" =>
    /\ \A j \in 1..Len(processes) :
         (~Invalid(processes[j]) /\ Number(processes[j].arrival).val < 0) =>
           /\ \E k \in 1..Len(report.rows) :
                /\ report.rows[k].pid = Trim(processes[j].pid)
                /\ report.rows[k].arrival = Number(processes[j].arrival).val
                /\ report.rows[k].start >= 0
                /\ report.rows[k].waiting = report.rows[k].start - report.rows[k].arrival
                /\ report.rows[k].waiting > 0
           /\ ~report.timeline[1].idle
           /\ report.timeline[1].start = 0
    /\ \A k \in 1..Len(report.timeline) : report.timeline[k].start >= 0

\* a process with arrival -1 has been run second, after a shorter one
C17_Witness ==
  /\ pc = "done" /\ algo = "SJF" /\ Len(report.rows) >= 2
  /\ report.rows[2].arrival = 0 - 1
  /\ report.rows[2].start > 0
  /\ report.rows[1].arrival = 0

\* C18: no step of normalizeProcesses, computeFCFS or computeSJF changes
\* the caller's list: its length, the order of its descriptors and their
\* pid, arrival and burst stay as they were before the call
C18_InputUnchanged ==
  [][(CallFCFS \/ FCFSIter \/ FCFSReturn \/ CallSJF \/ SJFIter \/ SJFReturn) =>
       /\ Len(processes') = Len(processes)
       /\ \A j \in 1..Len(processes) :
            /\ processes'[j].pid = processes[j].pid
            /\ processes'[j].arrival = processes[j].arrival
            /\ processes'[j].burst = processes[j].burst]_vars

\* SJF has returned for a list with a dropped descriptor and with its
\* last descriptor scheduled first
C18_Witness ==
  /\ pc = "done" /\ algo = "SJF"
  /\ Len(processes) = 3 /\ Len(report.rows) = 2
  /\ Invalid(processes[1])
  /\ report.rows[1].pid = processes[3].pid

\* C19: in computeSJF every process of the ready set has arrival <= the
\* clock t when the selection is made, so start is t (Math.max(t,
\* p.arrival) never gives an arrival above t) and the dispatch pushes no
\* idle block: the only idle block of an iteration is the one of the wait
\* for the next arrival
C19_StartIsClock ==
  /\ [](pc = "sjf" => \A j \in 1..Len(ready) : ready[j].arrival <= t)
  /\ [][SJFIter =>
          LET b1 == bringArrivals(remaining, ready, t)
              waits == Len(b1.ready) = 0
              clock == IF waits THEN b1.remaining[1].arrival ELSE t
              b2 == bringArrivals(b1.remaining, b1.ready, clock)
          IN /\ \A j \in 1..Len(b2.ready) : b2.ready[j].arrival <= clock
             /\ p'.arrival <= clock
             /\ rows'[Len(rows')].start = clock
             /\ Max(clock, p'.arrival) = clock
             /\ Len(timeline') =
                  Len(timeline) + 1 + (IF waits /\ t < clock THEN 1 ELSE 0)]_vars

\* SJF has dispatched, after a wait, a process that arrived before the clock
C19_Witness ==
  /\ pc = "sjf" /\ Len(rows) = 3
  /\ p.arrival < rows[Len(rows)].start
  /\ \E j \in 2..Len(timeline) : timeline[j].idle

====
